---- MODULE Spec2Model ----
(***************************************************************************)
(* Model of the document store (src/src/db.py) and of the ingestion        *)
(* orchestrator (src/src/ingestion.py) of source-aware-rag-tutor.          *)
(*                                                                         *)
(* Strings that the code takes apart (file paths) are sequences of one     *)
(* character strings; strings it only copies and compares are TLA+         *)
(* strings.  Python's None is the value None below for a path and NoneId   *)
(* for a document identity.                                                *)
(***************************************************************************)
EXTENDS Integers, Sequences, FiniteSets, TLC

(***************************************************************************)
(* Bounds of the model.                                                    *)
(***************************************************************************)
MaxPathLen == 4      \* longest path explored for extract_category_from_path
MaxDocSeq == 2       \* values the documents.id sequence may hand out
MaxChunkSeq == 3     \* values the document_chunks.id sequence may hand out
MaxBatch == 2        \* longest chunk batch of a direct insert_chunks call
MaxTopK == 2         \* largest top_k of a search

(***************************************************************************)
(* Values.                                                                 *)
(***************************************************************************)
None == <<"<None>">>                \* a file_path argument that is None
NoneId == 0                         \* doc_id = None (SERIAL ids start at 1)
Uncategorized == <<"uncategorized">>
Sep == "/"
BackSlash == "\\"

(***************************************************************************)
(* Python string helpers used by extract_category_from_path.               *)
(***************************************************************************)
\* str.replace("\\", "/")
StrReplace(s) == [i \in DOMAIN s |-> IF s[i] = BackSlash THEN Sep ELSE s[i]]

\* str.split("/"): always at least one segment, empty segments are kept
RECURSIVE StrSplit(_)
StrSplit(s) ==
    IF \A i \in DOMAIN s : s[i] # Sep
    THEN <<s>>
    ELSE LET k == CHOOSE i \in DOMAIN s :
                      s[i] = Sep /\ \A j \in 1..(i - 1) : s[j] # Sep
         IN  <<SubSeq(s, 1, k - 1)>> \o StrSplit(SubSeq(s, k + 1, Len(s)))

\* "/".join(segs)
RECURSIVE StrJoin(_)
StrJoin(segs) ==
    IF Len(segs) = 0 THEN <<>>
    ELSE IF Len(segs) = 1 THEN segs[1]
    ELSE segs[1] \o <<Sep>> \o StrJoin(Tail(segs))

\* lst[:-1]
ButLast(lst) == SubSeq(lst, 1, Len(lst) - 1)

\* lst[-1]
Last(lst) == lst[Len(lst)]

\* Mutant of extract_category_from_path: the separators are not normalised.
extract_category_no_normalize(file_path) ==
    IF file_path = None THEN Uncategorized
    ELSE LET folder_path == StrJoin(ButLast(StrSplit(file_path)))
             category == IF folder_path # <<>>
                         THEN Last(StrSplit(folder_path))
                         ELSE Uncategorized
         IN  IF category # <<>> THEN category ELSE Uncategorized

\* db.py 131-138.  None.replace raises AttributeError, which the bare
\* except turns into "uncategorized".
extract_category_from_path(file_path) ==
    IF file_path = None THEN Uncategorized
    ELSE LET normalized == StrReplace(file_path)
             folder_path == StrJoin(ButLast(StrSplit(normalized)))
             category == IF folder_path # <<>>
                         THEN Last(StrSplit(folder_path))
                         ELSE Uncategorized
         IN  IF category # <<>> THEN category ELSE Uncategorized

(***************************************************************************)
(* The store: the schema objects that exist, the rows of the two tables    *)
(* and the two SERIAL sequences.  ret is what the last call of a store     *)
(* function gave its caller.                                               *)
(***************************************************************************)
VARIABLES schema, documents, document_chunks, doc_seq, chunk_seq, ret

storeVars == <<schema, documents, document_chunks, doc_seq, chunk_seq>>

VecDim == 2          \* embedding vector(1536), scaled down to the plane

\* The statements of init_db in order (db.py 86-120).
DDL == << "vector", "documents", "document_chunks",
          "idx_embedding", "idx_category", "idx_document_id" >>

SchemaObjects == {DDL[i] : i \in DOMAIN DDL}

(***************************************************************************)
(* Faults a store call can meet.  kind: "none"; "connect" (psycopg.connect *)
(* raises); "execute" (statement number `at` of the call raises);          *)
(* "commit" (conn.commit raises); "lost" (the first statement raises       *)
(* because the connection is gone, and conn.rollback raises as well).      *)
(***************************************************************************)
Fault(kind, at) == [kind |-> kind, at |-> at]
NoFault == Fault("none", 0)

Faults(n) == {NoFault, Fault("connect", 0), Fault("commit", 0)}
             \cup {Fault("execute", k) : k \in 1..n}
             \cup {Fault("lost", 1)}

StmtFails(fault, k) == fault.kind \in {"execute", "lost"} /\ fault.at = k

\* conn.commit(): the pending rows become durable.
Commit(durable, pending) == durable \cup pending

\* Mutant of Rollback: the rows of the failed transaction stay.
RollbackKeeps(durable, pending) == durable \cup pending

\* conn.rollback(): the pending rows are dropped.
Rollback(durable, pending) == durable

\* How a call that has opened its connection leaves its try statement:
\* the commit went through; an exception was caught and rolled back; the
\* rollback in the except clause raised as well; or (search, which has no
\* rollback) an exception was caught.
ExitPath(failed, fault) ==
    IF ~failed THEN "committed"
    ELSE IF fault.kind = "lost" THEN "rollback_raised"
    ELSE "rolled_back"

\* Mutant of ClosesAtExit: conn.close() stands after the try statement
\* instead of in its finally clause.
ClosesUnlessRaised(path) == IF path = "rollback_raised" THEN 0 ELSE 1

\* finally: conn.close() (db.py 127-128, 166-167, 195-196, 244-245): the
\* number of times the connection is closed on an exit path
ClosesAtExit(path) == 1

\* Mutant of CreateFails: the DDL lacks IF NOT EXISTS.
CreateFailsIfExists(sch, object) == object \in sch

\* CREATE ... IF NOT EXISTS: creating an object that exists is no error
CreateFails(sch, object) == FALSE

(***************************************************************************)
(* init_db (db.py 80-128).  The DDL statements run in one transaction:     *)
(* PostgreSQL DDL is transactional, so a rollback drops what the earlier   *)
(* statements of the call created.                                         *)
(***************************************************************************)
RECURSIVE ExecDDL(_, _, _, _)
\* The objects created by statements k.. of init_db, up to the first
\* statement that raises; failed tells whether one raised, executed how
\* many statements ran without raising.
ExecDDL(sch, fault, k, tx) ==
    IF k > Len(DDL) THEN tx
    ELSE IF StmtFails(fault, k) \/ CreateFails(sch, DDL[k])
    THEN [tx EXCEPT !.failed = TRUE]
    ELSE ExecDDL(sch, fault, k + 1,
                 [tx EXCEPT !.pending = @ \cup {DDL[k]}, !.executed = @ + 1])

\* Mutant of init_db: the connection runs in autocommit mode, every
\* statement is durable as soon as it has run.
init_db_autocommit(sch, fault) ==
    IF fault.kind = "connect"
    THEN [schema |-> sch, raised |-> TRUE, error |-> FALSE, commits |-> 0,
          executed |-> 0, opened |-> 0, closed |-> 0]
    ELSE LET tx == ExecDDL(sch, fault, 1,
                       [pending |-> {}, failed |-> FALSE, executed |-> 0])
             failed == tx.failed \/ fault.kind = "commit"
         IN  [schema   |-> sch \cup tx.pending,
              raised   |-> failed /\ fault.kind = "lost",
              error    |-> failed,
              commits  |-> IF tx.failed THEN 0 ELSE 1,
              executed |-> tx.executed,
              opened   |-> 1,
              closed   |-> ClosesAtExit(ExitPath(failed, fault))]

init_db(sch, fault) ==
    IF fault.kind = "connect"
    THEN [schema |-> sch, raised |-> TRUE, error |-> FALSE, commits |-> 0,
          executed |-> 0, opened |-> 0, closed |-> 0]
    ELSE LET tx == ExecDDL(sch, fault, 1,
                       [pending |-> {}, failed |-> FALSE, executed |-> 0])
             failed == tx.failed \/ fault.kind = "commit"
         IN  [schema   |-> IF failed THEN Rollback(sch, tx.pending)
                           ELSE Commit(sch, tx.pending),
              raised   |-> failed /\ fault.kind = "lost",
              error    |-> failed,
              \* conn.commit() is reached when no statement raised
              commits  |-> IF tx.failed THEN 0 ELSE 1,
              executed |-> tx.executed,
              opened   |-> 1,
              closed   |-> ClosesAtExit(ExitPath(failed, fault))]

(***************************************************************************)
(* insert_document (db.py 140-169).                                        *)
(***************************************************************************)
DocRow(id, file_path, filename, category, total_pages) ==
    [id |-> id, file_path |-> file_path, filename |-> filename,
     category |-> category, total_pages |-> total_pages]

\* Mutant of SelectByPath: the lookup compares the filename column, so a
\* registered path is not found.
SelectByFilename(docs, file_path) ==
    {d \in docs : <<d.filename>> = file_path}

\* SELECT id FROM documents WHERE file_path = %s  (NULL matches nothing)
SelectByPath(docs, file_path) ==
    IF file_path = None THEN {} ELSE {d \in docs : d.file_path = file_path}

\* Mutant of UniqueViolation: the file_path column is not declared UNIQUE.
NoUniqueViolation(docs, file_path) == FALSE

\* file_path TEXT NOT NULL UNIQUE (db.py 93): the INSERT raises when a
\* row with this file_path exists
UniqueViolation(docs, file_path) == \E d \in docs : d.file_path = file_path

insert_document(sch, docs, seq, file_path, filename, total_pages, fault) ==
    IF fault.kind = "connect"
    THEN [documents |-> docs, doc_seq |-> seq, doc_id |-> NoneId,
          raised |-> TRUE, error |-> FALSE, opened |-> 0, closed |-> 0]
    ELSE
    LET category == extract_category_from_path(file_path)
        selectFails == "documents" \notin sch \/ StmtFails(fault, 1)
        existing == SelectByPath(docs, file_path)
        \* file_path is NOT NULL and UNIQUE (db.py 93)
        insertFails == \/ StmtFails(fault, 2)
                       \/ file_path = None
                       \/ UniqueViolation(docs, file_path)
        newRow == DocRow(seq + 1, file_path, filename, category, total_pages)
        inserted == ~selectFails /\ existing = {} /\ ~insertFails
        pending == IF inserted THEN {newRow} ELSE {}
        failed == \/ selectFails
                  \/ existing = {} /\ insertFails
                  \/ fault.kind = "commit"
    IN  [documents |-> IF failed THEN Rollback(docs, pending)
                       ELSE Commit(docs, pending),
         \* nextval is not undone by a rollback
         doc_seq   |-> IF inserted THEN seq + 1 ELSE seq,
         \* doc_id keeps what the try block assigned before the exception
         doc_id    |-> IF selectFails THEN NoneId
                       ELSE IF existing # {}
                            THEN (CHOOSE d \in existing : TRUE).id
                       ELSE IF insertFails THEN NoneId
                       ELSE newRow.id,
         raised    |-> failed /\ fault.kind = "lost",
         error     |-> failed,
         opened    |-> 1,
         closed    |-> ClosesAtExit(ExitPath(failed, fault))]

(***************************************************************************)
(* insert_chunks (db.py 171-196).                                          *)
(***************************************************************************)
Metadata(file_path, page_label) ==
    [serializable |-> TRUE, file_path |-> file_path, page_label |-> page_label]

\* a metadata value json.dumps cannot serialize (it raises TypeError)
BadMetadata == [serializable |-> FALSE, file_path |-> None, page_label |-> ""]

\* json.dumps(ch["metadata"]): the object as its list of keys and values
JsonDumps(m) == << "file_path", m.file_path, "page_label", m.page_label >>

Chunk(chunk_id, text, embedding, page_number, metadata) ==
    [chunk_id |-> chunk_id, text |-> text, embedding |-> embedding,
     page_number |-> page_number, metadata |-> metadata]

ChunkRow(id, doc_id, ch) ==
    [id |-> id, document_id |-> doc_id, chunk_id |-> ch.chunk_id,
     text |-> ch.text, embedding |-> ch.embedding,
     page_number |-> ch.page_number, metadata |-> JsonDumps(ch.metadata)]

\* Whether one INSERT INTO document_chunks raises: json.dumps fails, the
\* table is missing, the embedding is not a vector(1536), or document_id
\* names no document.  A NULL document_id passes the foreign key: the
\* column (db.py 104) is not declared NOT NULL.
ChunkInsertFails(sch, docs, doc_id, ch) ==
    \/ ~ch.metadata.serializable
    \/ "document_chunks" \notin sch
    \/ Len(ch.embedding) # VecDim
    \/ doc_id # NoneId /\ \A d \in docs : d.id # doc_id

RECURSIVE ExecChunkInserts(_, _, _, _, _, _, _)
\* The for loop of db.py 176-188 from chunk i on: tx.pending are the rows
\* inserted in the open transaction, tx.seq the id sequence, tx.failed
\* whether an INSERT raised (the loop stops there).
ExecChunkInserts(sch, docs, doc_id, chunks, fault, i, tx) ==
    IF i > Len(chunks) THEN tx
    ELSE IF StmtFails(fault, i) \/ ChunkInsertFails(sch, docs, doc_id, chunks[i])
    THEN [tx EXCEPT !.failed = TRUE]
    ELSE ExecChunkInserts(sch, docs, doc_id, chunks, fault, i + 1,
             [tx EXCEPT !.pending = @ \cup {ChunkRow(tx.seq + 1, doc_id, chunks[i])},
                        !.seq = @ + 1])

insert_chunks(sch, docs, rows, seq, doc_id, chunks, fault) ==
    IF fault.kind = "connect"
    THEN [document_chunks |-> rows, chunk_seq |-> seq, executed |-> 0,
          raised |-> TRUE, error |-> FALSE, opened |-> 0, closed |-> 0]
    ELSE LET tx == ExecChunkInserts(sch, docs, doc_id, chunks, fault, 1,
                       [pending |-> {}, seq |-> seq, failed |-> FALSE])
             failed == tx.failed \/ fault.kind = "commit"
         IN  [document_chunks |-> IF failed THEN Rollback(rows, tx.pending)
                                  ELSE Commit(rows, tx.pending),
              chunk_seq |-> tx.seq,
              executed  |-> Cardinality(tx.pending),
              raised    |-> failed /\ fault.kind = "lost",
              error     |-> failed,
              opened    |-> 1,
              closed    |-> ClosesAtExit(ExitPath(failed, fault))]

(***************************************************************************)
(* search_similar_chunks (db.py 199-247).  Embeddings are non-zero integer *)
(* vectors of the plane.  The cosine distance a <=> q is                   *)
(* 1 - (a.q)/(|a||q|); distances and similarities are compared exactly by  *)
(* cross-multiplying the signed squares of the cosines.                    *)
(***************************************************************************)
Dot(a, b) == a[1] * b[1] + a[2] * b[2]

SgnSq(x) == IF x >= 0 THEN x * x ELSE 0 - (x * x)

\* 1 - (a <=> q), as the signed square of the cosine: num / den
Similarity(a, q) == [num |-> SgnSq(Dot(a, q)), den |-> Dot(a, a) * Dot(q, q)]

\* s1 >= s2 for two similarities
SimGeq(s1, s2) == s1.num * s2.den >= s2.num * s1.den

\* (a <=> q) <= (b <=> q)
DistLeq(a, b, q) == SimGeq(Similarity(a, q), Similarity(b, q))

\* FROM document_chunks c JOIN documents d ON c.document_id = d.id
Join(docs, rows) ==
    {j \in {[c |-> c, d |-> d] : c \in rows, d \in docs} : j.c.document_id = j.d.id}

\* Mutant of Where: the category predicate is dropped from the query.
WhereNothing(joined, category_filter) == joined

\* db.py 230-232: WHERE d.category = %s, added when category_filter is truthy
Where(joined, category_filter) ==
    IF category_filter = None \/ category_filter = <<>>
    THEN joined
    ELSE {j \in joined : j.d.category = category_filter}

\* Mutant of OrderBy: the rows keep an arbitrary order.
RECURSIVE Unordered(_, _)
Unordered(S, q) ==
    IF S = {} THEN {<<>>}
    ELSE UNION {{<<m>> \o t : t \in Unordered(S \ {m}, q)} : m \in S}

RECURSIVE OrderBy(_, _)
\* ORDER BY c.embedding <=> q: every order of the rows that is ascending in
\* the distance (rows at the same distance come in any order)
OrderBy(S, q) ==
    IF S = {} THEN {<<>>}
    ELSE LET first == {m \in S : \A o \in S :
                           DistLeq(m.c.embedding, o.c.embedding, q)}
         IN  UNION {{<<m>> \o t : t \in OrderBy(S \ {m}, q)} : m \in first}

\* Mutant of Limit: one row fewer than asked for.
LimitOneLess(ordered, top_k) ==
    SubSeq(ordered, 1, IF top_k - 1 < Len(ordered) THEN top_k - 1 ELSE Len(ordered))

\* LIMIT %s
Limit(ordered, top_k) ==
    SubSeq(ordered, 1, IF top_k < Len(ordered) THEN top_k ELSE Len(ordered))

\* the SELECT list of db.py 217-223
ResultRow(j, q) ==
    [text |-> j.c.text, metadata |-> j.c.metadata,
     page_number |-> j.c.page_number, filename |-> j.d.filename,
     category |-> j.d.category, similarity |-> Similarity(j.c.embedding, q)]

\* The outcomes the call can have: the rows fetchall returns, whether an
\* exception reached the caller, whether an error was caught and logged.
\* row_ids notes which chunk row each returned record was read from.
search_similar_chunks(sch, docs, rows, query_embedding, top_k, category_filter, fault) ==
    IF fault.kind = "connect"
    THEN {[results |-> <<>>, row_ids |-> <<>>, raised |-> TRUE, error |-> FALSE,
           opened |-> 0, closed |-> 0]}
    ELSE IF \/ StmtFails(fault, 1)
            \/ ~({"documents", "document_chunks"} \subseteq sch)
            \/ Len(query_embedding) # VecDim      \* different vector dimensions
            \/ top_k < 0                          \* LIMIT must not be negative
    THEN {[results |-> <<>>, row_ids |-> <<>>, raised |-> FALSE, error |-> TRUE,
           opened |-> 1, closed |-> ClosesAtExit("failed")]}
    ELSE {[results |-> [i \in DOMAIN lim |-> ResultRow(lim[i], query_embedding)],
           row_ids |-> [i \in DOMAIN lim |-> lim[i].c.id],
           raised |-> FALSE, error |-> FALSE,
           opened |-> 1, closed |-> ClosesAtExit("returned")] :
             lim \in {Limit(o, top_k) :
                        o \in OrderBy(Where(Join(docs, rows), category_filter),
                                      query_embedding)}}

(***************************************************************************)
(* Ingestion (ingestion.py).                                               *)
(***************************************************************************)
\* the embedding the service computes for a text
Emb(t) == CASE t = "t1" -> <<1, 0>>
            [] t = "t2" -> <<0, 1>>
            [] OTHER    -> <<1, 1>>

\* `t and t.strip()` is falsy
IsBlank(t) == t \in {"", " "}

RECURSIVE ValidTexts(_)
\* [t for t in texts if t and t.strip()]
ValidTexts(texts) ==
    IF texts = <<>> THEN <<>>
    ELSE (IF IsBlank(Head(texts)) THEN <<>> ELSE <<Head(texts)>>)
         \o ValidTexts(Tail(texts))

\* What client.embeddings.create does with a non-empty input: "ok" gives
\* one vector per input in input order, "short" one vector too few, "long"
\* one vector too many, "raise" an exception.
ServiceBehaviours == {"ok", "short", "long", "raise"}

\* ingestion.py 90-107
generate_embeddings(texts, svc) ==
    LET valid_texts == ValidTexts(texts)
    IN  IF valid_texts = <<>> THEN <<>>
        ELSE IF svc = "raise" THEN <<>>
        ELSE IF svc = "short"
             THEN [i \in 1..(Len(valid_texts) - 1) |-> Emb(valid_texts[i])]
        ELSE IF svc = "long"
             THEN [i \in DOMAIN valid_texts |-> Emb(valid_texts[i])] \o <<Emb("")>>
        ELSE [i \in DOMAIN valid_texts |-> Emb(valid_texts[i])]

\* Mutant of CountMismatch: the count is never checked.
CountNeverChecked(embeddings, texts) == FALSE

\* Mutant of CountMismatch: only too few embeddings count as a mismatch.
CountTooFew(embeddings, texts) == Len(embeddings) < Len(texts)

\* ingestion.py 152
CountMismatch(embeddings, texts) == Len(embeddings) # Len(texts)

Node(id_, text, page_label) == [id_ |-> id_, text |-> text, page_label |-> page_label]

\* str(page_label).isdigit()
IsDigit(page_label) == page_label \in {"1", "2"}

\* int(page_label)
ToInt(page_label) == IF page_label = "1" THEN 1 ELSE 2

\* ingestion.py 163 (a missing label reads as '0')
PageNumber(page_label) == IF IsDigit(page_label) THEN ToInt(page_label) ELSE 0

\* ingestion.py 138-143: the number of distinct truthy page labels
TotalPages(file_nodes) ==
    Cardinality({file_nodes[i].page_label : i \in DOMAIN file_nodes} \ {""})

\* Mutant of ChunksData: every chunk gets the first embedding.
ChunksDataFirst(file_path, file_nodes, embeddings) ==
    [i \in DOMAIN file_nodes |->
        Chunk(file_nodes[i].id_, file_nodes[i].text, embeddings[1],
              PageNumber(file_nodes[i].page_label),
              Metadata(file_path, file_nodes[i].page_label))]

\* ingestion.py 157-165
ChunksData(file_path, file_nodes, embeddings) ==
    [i \in DOMAIN file_nodes |->
        Chunk(file_nodes[i].id_, file_nodes[i].text, embeddings[i],
              PageNumber(file_nodes[i].page_label),
              Metadata(file_path, file_nodes[i].page_label))]

(***************************************************************************)
(* The caller's side.  first_call remembers, for every file_path, the      *)
(* arguments and the result of the first insert_document call that         *)
(* registered it.  The other variables are the position and the locals of  *)
(* one ingest_data call; cur notes how the steps of the current file went   *)
(* and report what became of each file the loop has left.                  *)
(***************************************************************************)
VARIABLES first_call, pc, nodes_by_file, fi, doc_id, embeddings, cur, report

ingestVars == <<pc, nodes_by_file, fi, doc_id, embeddings, cur, report>>

\* file paths of the corpus: two files of category "s", one of "p"
PathSA == <<"s", "/", "a">>
PathSB == <<"s", "/", "b">>
PathPC == <<"p", "\\", "c">>
Paths == {PathSA, PathPC}

\* (filename, total_pages) arguments of a direct insert_document call
DocAttrs == {<<"f1", 1>>, <<"f2", 2>>}

\* a store call made by the caller: the store after it, ret and first_call
CallInsertDocument(file_path, filename, total_pages, fault) ==
    LET r == insert_document(schema, documents, doc_seq,
                             file_path, filename, total_pages, fault)
        known == \E f \in first_call : f.file_path = file_path
    IN  /\ documents' = r.documents
        /\ doc_seq' = r.doc_seq
        /\ ret' = [op |-> "insert_document", file_path |-> file_path,
                   filename |-> filename, total_pages |-> total_pages,
                   doc_id |-> r.doc_id, raised |-> r.raised,
                   error |-> r.error, known |-> known, fault |-> fault.kind,
                   opened |-> r.opened, closed |-> r.closed]
        /\ first_call' =
             IF ~known /\ ~r.error /\ ~r.raised
             THEN first_call \cup
                  {[file_path |-> file_path, doc_id |-> r.doc_id,
                    filename |-> filename, total_pages |-> total_pages,
                    category |-> extract_category_from_path(file_path)]}
             ELSE first_call

CallInsertChunks(id, chunks, fault) ==
    LET r == insert_chunks(schema, documents, document_chunks, chunk_seq,
                           id, chunks, fault)
    IN  /\ document_chunks' = r.document_chunks
        /\ chunk_seq' = r.chunk_seq
        /\ ret' = [op |-> "insert_chunks", doc_id |-> id, n |-> Len(chunks),
                   executed |-> r.executed,
                   raised |-> r.raised, error |-> r.error,
                   opened |-> r.opened, closed |-> r.closed]

(***************************************************************************)
(* The corpus ingest_data loads: two source files, split into one or two   *)
(* chunks whose text may be blank.                                         *)
(***************************************************************************)
PageLabelAt(i) == IF i = 1 THEN "1" ELSE "iv"

SourceFile(file_path, file_name, texts) ==
    [file_path |-> file_path, file_name |-> file_name,
     nodes |-> [i \in DOMAIN texts |->
                   Node(<<file_name, i>>, texts[i], PageLabelAt(i))]]

\* nodes_by_file after ingestion.py 116-127, in the dict's insertion order
Corpora ==
    {<< SourceFile(PathSA, "a", ta), SourceFile(PathPC, "c", tc) >> :
        ta \in {<<"t1", "t2">>, <<"t1", " ">>, <<" ", "t2">>},
        tc \in {<<"t2">>, <<" ">>}}

Texts(file_nodes) == [i \in DOMAIN file_nodes |-> file_nodes[i].text]

Idle == pc = "idle"

\* nothing has happened yet to the current file
NoSteps == [reg_error |-> FALSE, nemb |-> -1, svc |-> "none"]

\* What became of file fi: status is "processed" (the line of 169 was
\* logged), "mismatch" (153) or "failed" (172); nemb is the number of
\* embeddings returned (-1: never requested); written are the rows that
\* its insert_chunks call made durable.
Outcome(status, write_error, written) ==
    [status |-> status, file_path |-> nodes_by_file[fi].file_path,
     doc_id |-> doc_id', reg_error |-> cur'.reg_error,
     ntexts |-> Len(nodes_by_file[fi].nodes), nemb |-> cur'.nemb,
     write_error |-> write_error, written |-> written]

\* Mutant of LoopContinues: without the try of ingestion.py 133 a failed
\* file ends the loop.
LoopStopsOnFailure(status) == status # "failed"

\* ingestion.py 132-133, 154, 171-172: whatever became of a file, the for
\* loop goes on to the next one
LoopContinues(status) == TRUE

\* the loop leaves file fi
NextFile(outcome) ==
    /\ report' = Append(report, outcome)
    /\ fi' = fi + 1
    /\ pc' = IF fi + 1 > Len(nodes_by_file) \/ ~LoopContinues(outcome.status)
             THEN "done" ELSE "register"

(***************************************************************************)
(* Direct calls of the store functions.                                    *)
(***************************************************************************)
InitDb ==
    /\ Idle
    /\ \E fault \in Faults(Len(DDL)) :
         LET r == init_db(schema, fault)
         IN  /\ schema' = r.schema
             /\ ret' = [op |-> "init_db", raised |-> r.raised,
                        error |-> r.error, commits |-> r.commits,
                        fault |-> fault.kind, executed |-> r.executed,
                        opened |-> r.opened, closed |-> r.closed]
    /\ UNCHANGED <<documents, document_chunks, doc_seq, chunk_seq,
                   first_call, ingestVars>>

\* a call of insert_document with arguments and a fault of the given sets
InsertDocumentWith(paths, attrSet, faults) ==
    /\ Idle
    /\ \E file_path \in paths, attrs \in attrSet, fault \in faults :
         CallInsertDocument(file_path, attrs[1], attrs[2], fault)
    /\ doc_seq' <= MaxDocSeq
    /\ UNCHANGED <<schema, document_chunks, chunk_seq, ingestVars>>

\* a direct call meets no fault, or cannot connect
InsertDocument ==
    InsertDocumentWith(Paths, DocAttrs, {NoFault, Fault("connect", 0)})

\* chunks a direct caller passes: a well-formed one, one whose embedding
\* has the wrong dimension, one whose metadata json.dumps rejects
GoodChunk == Chunk("c1", "t1", <<1, 0>>, 1, Metadata(PathSA, "1"))
MalformedChunks ==
    { Chunk("c3", "t1", <<1>>, 1, Metadata(PathSA, "1")),
      Chunk("c4", "t2", <<0, 1>>, 0, BadMetadata) }
DirectChunks == {GoodChunk} \cup MalformedChunks

\* the batches of n chunks over chunkSet with at most one malformed entry
Batches(chunkSet, n) ==
    {b \in [1..n -> chunkSet] :
        Cardinality({i \in 1..n : b[i] \in MalformedChunks}) <= 1}

\* a call of insert_chunks with a batch over chunkSet of a size in sizes
InsertChunksWith(chunkSet, kinds, sizes) ==
    /\ Idle
    /\ \E id \in 1..MaxDocSeq, n \in sizes :
         /\ chunk_seq + n <= MaxChunkSeq
         /\ \E chunks \in Batches(chunkSet, n),
               fault \in {f \in Faults(n) : f.kind \in kinds} :
              CallInsertChunks(id, chunks, fault)
    /\ UNCHANGED <<schema, documents, doc_seq, first_call, ingestVars>>

FaultKinds == {"none", "connect", "execute", "commit", "lost"}

InsertChunks == InsertChunksWith(DirectChunks, FaultKinds, 0..MaxBatch)

\* the caller registers a document without meeting a fault
RegisterDocument == InsertDocumentWith(Paths, {<<"f1", 1>>}, {NoFault})

\* well-formed chunks with embeddings in two directions
SearchChunks ==
    { Chunk("c1", "t1", <<1, 0>>, 1, Metadata(PathSA, "1")),
      Chunk("c2", "t2", <<0, 1>>, 0, Metadata(PathSA, "iv")) }

\* the caller stores a well-formed chunk without meeting a fault
StoreChunks == InsertChunksWith(SearchChunks, {"none"}, {1})

\* the caller registers a document of category "s" or "p"
StoreDocument == InsertDocumentWith(Paths, {<<"f1", 1>>}, {NoFault})

\* <<1, 1>> is as far from one chunk as from the other
Queries == {<<1, 0>>, <<1, 1>>, <<-1, 0>>}
TopKs == {-1} \cup 0..MaxTopK
Filters == {None, <<>>, <<"s">>, <<"p">>}

\* the arguments of a search, and the fault it meets
SearchCalls ==
    {[q |-> q, top_k |-> k, category_filter |-> f, fault |-> NoFault] :
        q \in Queries, k \in TopKs, f \in Filters}
    \cup {[q |-> <<1, 0>>, top_k |-> MaxTopK, category_filter |-> None, fault |-> x] :
            x \in {Fault("connect", 0), Fault("execute", 1)}}
    \cup {[q |-> <<1>>, top_k |-> MaxTopK, category_filter |-> None, fault |-> NoFault]}

\* a call of search_similar_chunks with arguments and a fault of calls
SearchWith(calls) ==
    /\ Idle
    /\ \E call \in calls :
         \E out \in search_similar_chunks(schema, documents, document_chunks,
                        call.q, call.top_k, call.category_filter, call.fault) :
            ret' = [op |-> "search", query_embedding |-> call.q,
                    top_k |-> call.top_k,
                    category_filter |-> call.category_filter,
                    results |-> out.results, row_ids |-> out.row_ids,
                    raised |-> out.raised,
                    opened |-> out.opened, closed |-> out.closed,
                    error |-> out.error]
    /\ UNCHANGED <<storeVars, first_call, ingestVars>>

Search == SearchWith(SearchCalls)

\* Calls of the four store functions on one document and one chunk, each
\* under every fault it can meet.
ConnRegister == InsertDocumentWith({PathSA}, {<<"f1", 1>>}, Faults(2))

ConnWrite == InsertChunksWith({GoodChunk}, FaultKinds, {1})

ConnSearchCalls ==
    {[q |-> <<1, 0>>, top_k |-> 1, category_filter |-> None, fault |-> x] :
        x \in {NoFault, Fault("connect", 0), Fault("execute", 1), Fault("lost", 1)}}

ConnSearch == SearchWith(ConnSearchCalls)

(***************************************************************************)
(* ingest_data (ingestion.py 109-172), one action per step.                *)
(***************************************************************************)
\* 114: init_db(); an exception it lets out ends ingest_data
IngestInit ==
    /\ Idle
    /\ doc_seq + Cardinality(Paths) <= MaxDocSeq
    /\ chunk_seq + 3 <= MaxChunkSeq
    /\ \E fault \in Faults(Len(DDL)) :
         LET r == init_db(schema, fault)
         IN  /\ schema' = r.schema
             /\ ret' = [op |-> "init_db", raised |-> r.raised,
                        error |-> r.error, commits |-> r.commits,
                        fault |-> fault.kind, executed |-> r.executed,
                        opened |-> r.opened, closed |-> r.closed]
             /\ pc' = IF r.raised THEN "aborted" ELSE "load"
    /\ nodes_by_file' = <<>>
    /\ fi' = 1
    /\ doc_id' = NoneId
    /\ embeddings' = <<>>
    /\ cur' = NoSteps
    /\ report' = <<>>
    /\ UNCHANGED <<documents, document_chunks, doc_seq, chunk_seq, first_call>>

\* 117-129: load, clean, split, group by file
IngestLoad ==
    /\ pc = "load"
    /\ nodes_by_file' \in Corpora
    /\ pc' = "register"
    /\ UNCHANGED <<storeVars, ret, first_call, fi, doc_id, embeddings, cur, report>>

\* 135-146: filename, total_pages, insert_document
IngestRegister ==
    /\ pc = "register"
    /\ LET file == nodes_by_file[fi]
       IN  \E fault \in Faults(2) :
             /\ CallInsertDocument(file.file_path, file.file_name,
                                   TotalPages(file.nodes), fault)
             /\ embeddings' = <<>>
             /\ IF ret'.raised
                THEN /\ doc_id' = NoneId
                     /\ cur' = [NoSteps EXCEPT !.reg_error = TRUE]
                     /\ NextFile(Outcome("failed", FALSE, {}))
                ELSE /\ doc_id' = ret'.doc_id
                     /\ cur' = [NoSteps EXCEPT !.reg_error = ret'.error]
                     /\ pc' = "embed"
                     /\ UNCHANGED <<fi, report>>
    /\ UNCHANGED <<schema, document_chunks, chunk_seq, nodes_by_file>>

\* 149-154: generate_embeddings and the count check
IngestEmbed ==
    /\ pc = "embed"
    /\ UNCHANGED <<storeVars, ret, first_call, nodes_by_file, doc_id>>
    /\ \E svc \in ServiceBehaviours :
         LET texts == Texts(nodes_by_file[fi].nodes)
             e == generate_embeddings(texts, svc)
         IN  /\ embeddings' = e
             \* the service is called when a text is left after filtering
             /\ cur' = [cur EXCEPT !.nemb = Len(e),
                                   !.svc = IF ValidTexts(texts) = <<>>
                                           THEN "none" ELSE svc]
             /\ IF CountMismatch(e, texts)
                THEN NextFile(Outcome("mismatch", FALSE, {}))
                ELSE /\ pc' = "write"
                     /\ UNCHANGED <<fi, report>>

\* 157-169: chunks_data, insert_chunks, "Processed".  embeddings[i] raises
\* IndexError when there are fewer embeddings than nodes.
IngestWrite ==
    /\ pc = "write"
    /\ UNCHANGED <<schema, documents, doc_seq, first_call, nodes_by_file,
                   doc_id, embeddings, cur>>
    /\ LET file == nodes_by_file[fi]
       IN  IF Len(embeddings) < Len(file.nodes)
           THEN /\ NextFile(Outcome("failed", FALSE, {}))
                /\ UNCHANGED <<document_chunks, chunk_seq, ret>>
           ELSE \E fault \in Faults(Len(file.nodes)) :
                  /\ CallInsertChunks(doc_id,
                         ChunksData(file.file_path, file.nodes, embeddings), fault)
                  /\ NextFile(Outcome(IF ret'.raised THEN "failed" ELSE "processed",
                                      ret'.error \/ ret'.raised,
                                      document_chunks' \ document_chunks))

(***************************************************************************)
(* A caller of extract_category_from_path: cat_in is the argument, cat_out *)
(* the value returned once cat_called.                                     *)
(***************************************************************************)
VARIABLES cat_in, cat_out, cat_called

catVars == <<cat_in, cat_out, cat_called>>

PathChars == {"a", "b", Sep, BackSlash}

\* every path of at most MaxPathLen characters, and None
PathInputs == {None} \cup UNION {[1..n -> PathChars] : n \in 0..MaxPathLen}

CatCall ==
    /\ ~cat_called
    /\ cat_out' = extract_category_from_path(cat_in)
    /\ cat_called' = TRUE
    /\ UNCHANGED cat_in

CatNextInput ==
    /\ cat_called
    /\ cat_in' \in PathInputs
    /\ cat_out' = <<>>
    /\ cat_called' = FALSE

(***************************************************************************)
(* Two processes that call insert_document at the same time, each on its   *)
(* own connection (db.py 140-169, one action per statement).  rpc is the   *)
(* position of each call, rloc its arguments and locals.  PostgreSQL runs  *)
(* the transactions READ COMMITTED: the SELECT sees committed rows only,   *)
(* and an INSERT of a file_path that another open transaction has inserted *)
(* waits for that transaction to end.                                      *)
(***************************************************************************)
VARIABLES rpc, rloc

raceVars == <<rpc, rloc>>

Procs == {1, 2}

IdleCall == [file_path |-> None, filename |-> "", total_pages |-> 0,
             existing |-> {}, pending |-> {}, doc_id |-> NoneId,
             error |-> FALSE, violation |-> FALSE]

RacePaths == {PathSA, PathSB}

\* 142-144: the connection is opened, doc_id = None
RBegin(p) ==
    /\ rpc[p] = "idle"
    /\ doc_seq < MaxDocSeq
    /\ \E file_path \in RacePaths, attrs \in DocAttrs :
         rloc' = [rloc EXCEPT ![p] = [IdleCall EXCEPT !.file_path = file_path,
                                                      !.filename = attrs[1],
                                                      !.total_pages = attrs[2]]]
    /\ rpc' = [rpc EXCEPT ![p] = "select"]
    /\ UNCHANGED <<documents, doc_seq>>

\* 149-153: the lookup, and doc_id = existing["id"] when it finds a row
RSelect(p) ==
    /\ rpc[p] = "select"
    /\ LET existing == SelectByPath(documents, rloc[p].file_path)
       IN  IF existing # {}
           THEN /\ rloc' = [rloc EXCEPT ![p].existing = existing,
                                        ![p].doc_id = (CHOOSE d \in existing : TRUE).id]
                /\ rpc' = [rpc EXCEPT ![p] = "commit"]
           ELSE /\ rloc' = rloc
                /\ rpc' = [rpc EXCEPT ![p] = "insert"]
    /\ UNCHANGED <<documents, doc_seq>>

\* 155-160: the INSERT; 163-169 when it raises the uniqueness violation
RInsert(p) ==
    /\ rpc[p] = "insert"
    /\ \A q \in Procs \ {p} : \A row \in rloc[q].pending :
          row.file_path # rloc[p].file_path
    /\ doc_seq' = doc_seq + 1
    /\ IF UniqueViolation(documents, rloc[p].file_path)
       THEN /\ rloc' = [rloc EXCEPT ![p].error = TRUE, ![p].violation = TRUE]
            /\ rpc' = [rpc EXCEPT ![p] = "return"]
       ELSE /\ rloc' = [rloc EXCEPT
                  ![p].pending = {DocRow(doc_seq + 1, rloc[p].file_path,
                                     rloc[p].filename,
                                     extract_category_from_path(rloc[p].file_path),
                                     rloc[p].total_pages)},
                  ![p].doc_id = doc_seq + 1]
            /\ rpc' = [rpc EXCEPT ![p] = "commit"]
    /\ UNCHANGED documents

\* 162: conn.commit(), which may raise; 163-167 then roll back
RCommit(p) ==
    /\ rpc[p] = "commit"
    /\ \E ok \in BOOLEAN :
         IF ok
         THEN /\ documents' = Commit(documents, rloc[p].pending)
              /\ rloc' = [rloc EXCEPT ![p].pending = {}]
         ELSE /\ documents' = Rollback(documents, rloc[p].pending)
              /\ rloc' = [rloc EXCEPT ![p].pending = {}, ![p].error = TRUE]
    /\ rpc' = [rpc EXCEPT ![p] = "return"]
    /\ UNCHANGED doc_seq

\* 169: return doc_id
RReturn(p) ==
    /\ rpc[p] = "return"
    /\ rpc' = [rpc EXCEPT ![p] = "idle"]
    /\ ret' = [op |-> "insert_document", file_path |-> rloc[p].file_path,
               filename |-> rloc[p].filename,
               total_pages |-> rloc[p].total_pages, doc_id |-> rloc[p].doc_id,
               raised |-> FALSE, error |-> rloc[p].error,
               known |-> rloc[p].existing # {}, violation |-> rloc[p].violation]
    /\ UNCHANGED <<documents, doc_seq, rloc>>

\* ingest_data has returned, or an exception ended it: its locals are gone
IngestReturn ==
    /\ pc \in {"done", "aborted"}
    /\ pc' = "idle"
    /\ nodes_by_file' = <<>>
    /\ fi' = 1
    /\ doc_id' = NoneId
    /\ embeddings' = <<>>
    /\ cur' = NoSteps
    /\ report' = <<>>
    /\ UNCHANGED <<storeVars, ret, first_call>>

\* ingest_data has processed every file of the directory and is called
\* again on the same, unchanged directory: 114 init_db(), and 117-129 load
\* the same nodes_by_file.  report keeps the outcomes of the first run, the
\* second run appends its own.
IngestAgain ==
    /\ pc = "done"
    /\ Len(report) = Len(nodes_by_file)
    /\ \A i \in DOMAIN report :
          /\ report[i].status = "processed"
          /\ ~report[i].write_error
          /\ report[i].written # {}
    /\ \E fault \in Faults(Len(DDL)) :
         LET r == init_db(schema, fault)
         IN  /\ schema' = r.schema
             /\ ret' = [op |-> "init_db", raised |-> r.raised,
                        error |-> r.error, commits |-> r.commits,
                        fault |-> fault.kind, executed |-> r.executed,
                        opened |-> r.opened, closed |-> r.closed]
             /\ pc' = IF r.raised THEN "aborted" ELSE "register"
    /\ fi' = 1
    /\ doc_id' = NoneId
    /\ embeddings' = <<>>
    /\ cur' = NoSteps
    /\ UNCHANGED <<documents, document_chunks, doc_seq, chunk_seq, first_call,
                   nodes_by_file, report>>

(***************************************************************************)
(* Specifications.                                                         *)
(***************************************************************************)
vars == <<schema, documents, document_chunks, doc_seq, chunk_seq, ret,
          first_call, pc, nodes_by_file, fi, doc_id, embeddings, cur, report,
          cat_in, cat_out, cat_called, rpc, rloc>>

\* a fresh database, no call made yet
Init ==
    /\ schema = {}
    /\ documents = {}
    /\ document_chunks = {}
    /\ doc_seq = 0
    /\ chunk_seq = 0
    /\ ret = [op |-> "none"]
    /\ first_call = {}
    /\ pc = "idle"
    /\ nodes_by_file = <<>>
    /\ fi = 1
    /\ doc_id = NoneId
    /\ embeddings = <<>>
    /\ cur = NoSteps
    /\ report = <<>>
    /\ cat_in = None
    /\ cat_out = <<>>
    /\ cat_called = FALSE
    /\ rpc = [p \in Procs |-> "idle"]
    /\ rloc = [p \in Procs |-> IdleCall]

\* one process: direct store calls and ingest_data runs
Next ==
    \/ (InsertDocument /\ UNCHANGED <<catVars, raceVars>>)
    \/ (IngestInit /\ UNCHANGED <<catVars, raceVars>>)
    \/ (IngestLoad /\ UNCHANGED <<catVars, raceVars>>)
    \/ (IngestRegister /\ UNCHANGED <<catVars, raceVars>>)
    \/ (IngestEmbed /\ UNCHANGED <<catVars, raceVars>>)
    \/ (IngestWrite /\ UNCHANGED <<catVars, raceVars>>)
    \/ (IngestReturn /\ UNCHANGED <<catVars, raceVars>>)

Spec == Init /\ [][Next]_vars

\* calls of extract_category_from_path on every bounded path
NextCat ==
    \/ (CatCall /\ UNCHANGED <<storeVars, ret, first_call, ingestVars, raceVars>>)
    \/ (CatNextInput /\ UNCHANGED <<storeVars, ret, first_call, ingestVars, raceVars>>)

SpecCat == Init /\ [][NextCat]_vars

\* a database on which init_db has run, with empty tables
InitReady ==
    /\ schema = SchemaObjects
    /\ documents = {}
    /\ document_chunks = {}
    /\ doc_seq = 0
    /\ chunk_seq = 0
    /\ ret = [op |-> "none"]
    /\ first_call = {}
    /\ pc = "idle"
    /\ nodes_by_file = <<>>
    /\ fi = 1
    /\ doc_id = NoneId
    /\ embeddings = <<>>
    /\ cur = NoSteps
    /\ report = <<>>
    /\ cat_in = None
    /\ cat_out = <<>>
    /\ cat_called = FALSE
    /\ rpc = [p \in Procs |-> "idle"]
    /\ rloc = [p \in Procs |-> IdleCall]

RaceFrame == UNCHANGED <<schema, document_chunks, chunk_seq, first_call,
                         ingestVars, catVars>>

NextRace ==
    \E p \in Procs :
        \/ (RBegin(p) /\ UNCHANGED ret /\ RaceFrame)
        \/ (RSelect(p) /\ UNCHANGED ret /\ RaceFrame)
        \/ (RInsert(p) /\ UNCHANGED ret /\ RaceFrame)
        \/ (RCommit(p) /\ UNCHANGED ret /\ RaceFrame)
        \/ (RReturn(p) /\ RaceFrame)

SpecRace == InitReady /\ [][NextRace]_vars

\* direct calls of init_db, insert_document and insert_chunks
NextStore ==
    \/ (InitDb /\ UNCHANGED <<catVars, raceVars>>)
    \/ (RegisterDocument /\ UNCHANGED <<catVars, raceVars>>)
    \/ (InsertChunks /\ UNCHANGED <<catVars, raceVars>>)

SpecStore == Init /\ [][NextStore]_vars

\* A caller fills an initialized database and then searches it.  A search
\* changes nothing in the store, so what could follow it could as well
\* follow the state before it: the run ends with the search.
NextSearch ==
    \/ (ret.op # "search" /\ StoreDocument /\ UNCHANGED <<catVars, raceVars>>)
    \/ (ret.op # "search" /\ StoreChunks /\ UNCHANGED <<catVars, raceVars>>)
    \/ (ret.op # "search" /\ Search /\ UNCHANGED <<catVars, raceVars>>)

SpecSearch == InitReady /\ [][NextSearch]_vars

\* ingest_data runs, and runs again over a directory it has processed
NextReingest ==
    \/ (IngestInit /\ UNCHANGED <<catVars, raceVars>>)
    \/ (IngestLoad /\ UNCHANGED <<catVars, raceVars>>)
    \/ (IngestRegister /\ UNCHANGED <<catVars, raceVars>>)
    \/ (IngestEmbed /\ UNCHANGED <<catVars, raceVars>>)
    \/ (IngestWrite /\ UNCHANGED <<catVars, raceVars>>)
    \/ (IngestAgain /\ UNCHANGED <<catVars, raceVars>>)
    \/ (IngestReturn /\ UNCHANGED <<catVars, raceVars>>)

SpecReingest == Init /\ [][NextReingest]_vars

\* every store function, under every fault
NextConn ==
    \/ (InitDb /\ UNCHANGED <<catVars, raceVars>>)
    \/ (ConnRegister /\ UNCHANGED <<catVars, raceVars>>)
    \/ (ConnWrite /\ UNCHANGED <<catVars, raceVars>>)
    \/ (ConnSearch /\ UNCHANGED <<catVars, raceVars>>)

SpecConn == Init /\ [][NextConn]_vars

(***************************************************************************)
(* Properties.                                                             *)
(***************************************************************************)
\* the stored Document rows of a file_path
RowsOfPath(file_path) == {d \in documents : d.file_path = file_path}

\* C1: on a working store, an insert_document call with a file_path that an
\* earlier call registered returns the identity the first call returned,
\* whatever filename and total_pages it passes, and the stored row of every
\* registered path keeps the category, filename and total_pages of the
\* first call.
C1_IdempotentRegistration ==
    /\ \A f \in first_call :
          RowsOfPath(f.file_path) =
             {DocRow(f.doc_id, f.file_path, f.filename, f.category, f.total_pages)}
    /\ (ret.op = "insert_document" /\ ret.known /\ ret.fault = "none")
          => /\ ~ret.error
             /\ ~ret.raised
             /\ \E f \in first_call :
                   f.file_path = ret.file_path /\ f.doc_id = ret.doc_id

\* C1 witness: a registered path was registered again under another
\* filename and another total_pages, and the call returned the first identity.
C1_Witness ==
    /\ ret.op = "insert_document"
    /\ ret.known
    /\ ret.fault = "none"
    /\ \E f \in first_call :
          /\ f.file_path = ret.file_path
          /\ f.filename # ret.filename
          /\ f.total_pages # ret.total_pages
          /\ f.doc_id = ret.doc_id

\* C2: an insert_chunks call with a batch of N chunks adds either N rows or
\* no row to document_chunks, removes none, and adds no row when an INSERT
\* of the batch failed, the commit failed or the call raised.
C2_AllOrNothing ==
    [][ ret'.op = "insert_chunks" =>
          LET added == document_chunks' \ document_chunks
          IN  /\ document_chunks \subseteq document_chunks'
              /\ Cardinality(added) \in {0, ret'.n}
              /\ \A c \in added : c.document_id = ret'.doc_id
              /\ (ret'.executed < ret'.n \/ ret'.error \/ ret'.raised)
                    => added = {} ]_vars

\* C2 witness: the second INSERT of a batch of two failed after the first
\* had succeeded, and the table is empty.
C2_Witness ==
    /\ ret.op = "insert_chunks"
    /\ ret.n = 2
    /\ ret.executed = 1
    /\ ret.error
    /\ chunk_seq > 0
    /\ document_chunks = {}

\* C3: when generate_embeddings returns a number of embeddings that differs
\* from the number of chunk texts of the file (none for some texts
\* included), the step writes no chunk of that file, insert_chunks is never
\* reached with such a count, and the loop goes on to the next file.
C3_MismatchSkipsFile ==
    /\ [](pc = "write" => Len(embeddings) = Len(nodes_by_file[fi].nodes))
    /\ [][ (pc = "embed" /\ cur'.nemb >= 0
              /\ cur'.nemb # Len(nodes_by_file[fi].nodes))
           => /\ document_chunks' = document_chunks
              /\ chunk_seq' = chunk_seq
              /\ fi' = fi + 1
              /\ report' = Append(report, report'[Len(report')])
              /\ report'[Len(report')].status = "mismatch"
              /\ report'[Len(report')].written = {}
              /\ pc' = IF fi < Len(nodes_by_file) THEN "register" ELSE "done" ]_vars

\* C3 witness: the first file got no embedding for its two texts and was
\* skipped, and the second file is being processed.
C3_Witness ==
    /\ pc \in {"embed", "write"}
    /\ fi = 2
    /\ report[1].status = "mismatch"
    /\ report[1].ntexts = 2
    /\ report[1].nemb = 0
    /\ \A c \in document_chunks : c.metadata[2] # report[1].file_path

\* C4: the loop of ingest_data ends only after it has left every file, and
\* every file whose registration, embedding and write steps all succeeded
\* has all its chunks in document_chunks, under the identity registered.
C4_PerFileIsolation ==
    /\ pc \in {"register", "embed", "write"} => fi = Len(report) + 1
    /\ pc \in {"register", "embed", "write"} => fi <= Len(nodes_by_file)
    /\ pc = "done" => Len(report) = Len(nodes_by_file)
    /\ \A i \in DOMAIN report :
          /\ report[i].file_path = nodes_by_file[i].file_path
          /\ (~report[i].reg_error /\ report[i].nemb = report[i].ntexts
                /\ ~report[i].write_error)
             => /\ report[i].status = "processed"
                /\ report[i].doc_id # NoneId
                /\ Cardinality(report[i].written) = report[i].ntexts
                /\ report[i].written \subseteq document_chunks
                /\ \A c \in report[i].written :
                      c.document_id = report[i].doc_id

\* C4 witness: the first file failed, the second was processed and its
\* chunk is stored.
C4_Witness ==
    /\ pc = "done"
    /\ Len(report) = 2
    /\ report[1].status = "failed"
    /\ report[2].status = "processed"
    /\ ~report[2].reg_error
    /\ ~report[2].write_error
    /\ report[2].written # {}
    /\ report[2].written \subseteq document_chunks

\* the chunk rows whose owning document passes the filter of the last search
FilteredChunks ==
    {c \in document_chunks :
        \E d \in documents :
            /\ d.id = c.document_id
            /\ (ret.category_filter \in {None, <<>>}
                   \/ d.category = ret.category_filter)}

\* the smaller of two numbers
Min(a, b) == IF a < b THEN a ELSE b

ChunkOf(id) == CHOOSE c \in document_chunks : c.id = id

\* the chunk rows the last search returned records of
ReturnedChunks == {ChunkOf(ret.row_ids[i]) : i \in DOMAIN ret.row_ids}

\* chunk a is strictly closer to the query of the last search than chunk b
StrictlyCloser(a, b) == ~DistLeq(b.embedding, a.embedding, ret.query_embedding)

C6_WitnessOrder ==
    /\ ret.op = "search"
    /\ ~ret.error
    /\ Len(ret.results) = 2
    /\ ~SimGeq(ret.results[2].similarity, ret.results[1].similarity)

\* the positions of the separators of a path, '\' counting as '/'
SepIdx(p) == {i \in DOMAIN p : p[i] \in {Sep, BackSlash}}

\* the largest member of a non-empty set of numbers
Max(S) == CHOOSE m \in S : \A x \in S : x <= m

\* the segments of a path between its separators, in order
RECURSIVE Segments(_)
Segments(p) ==
    IF SepIdx(p) = {} THEN <<p>>
    ELSE Append(Segments(SubSeq(p, 1, Max(SepIdx(p)) - 1)),
                SubSeq(p, Max(SepIdx(p)) + 1, Len(p)))

\* The name of the immediate parent directory of the file a path names:
\* the last directory name before the final segment, empty segments (a
\* doubled or a leading separator) naming no directory.  Uncategorized
\* when there is none.
ParentDirName(p) ==
    IF p = None THEN Uncategorized
    ELSE LET dirs == ButLast(Segments(p))
             named == {i \in DOMAIN dirs : dirs[i] # <<>>}
         IN  IF named = {} THEN Uncategorized ELSE dirs[Max(named)]

\* C7 as claimed: extract_category_from_path returns the name of the
\* immediate parent directory of the file for every path, and
\* "uncategorized" when the path has no parent directory component.
C7_ParentDirectory ==
    cat_called => cat_out = ParentDirName(cat_in)

\* the text between the last two separators of a path (from the start of
\* the path when it has one separator only)
BeforeLastSeparator(p) ==
    LET last == Max(SepIdx(p))
        before == {i \in SepIdx(p) : i < last}
        prev == IF before = {} THEN 0 ELSE Max(before)
    IN  [i \in 1..(last - prev - 1) |->
            IF p[prev + i] = BackSlash THEN Sep ELSE p[prev + i]]

\* C7 amended: extract_category_from_path returns a value for every input;
\* it is the text between the last two separators of the path ('\' and '/'
\* alike) when the path has a separator and that text is not empty, and
\* "uncategorized" otherwise (no separator, a leading separator only, two
\* adjacent separators before the last segment, the empty path, None).
C7_SegmentBeforeLast ==
    cat_called =>
       cat_out = IF cat_in = None \/ SepIdx(cat_in) = {}
                    \/ BeforeLastSeparator(cat_in) = <<>>
                 THEN Uncategorized
                 ELSE BeforeLastSeparator(cat_in)

\* C7 witness: the file of a//b has the parent directory a, and the call
\* returned "uncategorized".
C7_Witness ==
    /\ cat_called
    /\ cat_in = <<"a", Sep, Sep, "b">>
    /\ cat_out = Uncategorized

\* C7 witness of the separators: a path written with '\' got its category.
C7_WitnessBackslash ==
    /\ cat_called
    /\ cat_in = <<"a", BackSlash, "b", BackSlash>>
    /\ cat_out = <<"b">>

\* C8 as claimed: no store call lets an exception out to its caller (a
\* failure to connect included), and an insert_document call that met a
\* failure returns no identity.
C8_NoExceptionEscapes ==
    /\ ret.op # "none" => ~ret.raised
    /\ (ret.op = "insert_document" /\ ret.error) => ret.doc_id = NoneId

\* C9: whatever the interleaving of the concurrent insert_document calls,
\* documents never holds two rows of one file_path, and a call whose INSERT
\* met the uniqueness violation returns no identity, with its error
\* reported and no row of it left pending.
C9_UniquePathUnderRace ==
    /\ \A d1 \in documents, d2 \in documents :
          d1.file_path = d2.file_path => d1 = d2
    /\ \A p \in Procs :
          rloc[p].violation
          => /\ rloc[p].doc_id = NoneId
             /\ rloc[p].error
             /\ rloc[p].pending = {}
             /\ rloc[p].existing = {}
    /\ (ret.op = "insert_document" /\ ret.violation)
          => ret.doc_id = NoneId /\ ret.error

\* C9 witness: two calls raced for an unregistered path; one committed its
\* row, the other met the uniqueness violation and is about to return.
C9_Witness ==
    \E p \in Procs :
       /\ rpc[p] = "return"
       /\ rloc[p].violation
       /\ rloc[p].existing = {}
       /\ Cardinality(RowsOfPath(rloc[p].file_path)) = 1

\* C10 as claimed: every row of document_chunks has a document_id that is
\* the id of a row of documents.
C10_ChunksReferenceDocuments ==
    \A c \in document_chunks : \E d \in documents : d.id = c.document_id

\* C11: an init_db call in which a DDL statement or the commit fails
\* leaves the schema as it was before the call, whatever the earlier
\* statements of the call created, and the failure is reported.
C11_SchemaAllOrNothing ==
    [][ ret'.op = "init_db" =>
          /\ (ret'.error \/ ret'.raised) => schema' = schema
          /\ ret'.fault \in {"execute", "commit", "lost"} => ret'.error
          /\ schema' \in {schema, SchemaObjects} ]_vars

\* C11 witness: on a fresh store a statement of init_db failed after two
\* others had run, and the schema is empty.
C11_Witness ==
    /\ ret.op = "init_db"
    /\ ret.error
    /\ ret.executed >= 2
    /\ schema = {}

\* C12: an init_db call changes no Document and no Chunk row and no
\* sequence; on an initialized store it leaves the schema as it is; a call
\* that meets no fault succeeds, whatever exists already; and a call that
\* succeeds has committed exactly once.
C12_InitIdempotent ==
    [][ ret'.op = "init_db" =>
          /\ documents' = documents
          /\ document_chunks' = document_chunks
          /\ doc_seq' = doc_seq
          /\ chunk_seq' = chunk_seq
          /\ schema = SchemaObjects => schema' = schema
          /\ ret'.fault = "none"
                => ~ret'.error /\ ~ret'.raised /\ schema' = SchemaObjects
          /\ (~ret'.error /\ ~ret'.raised) => ret'.commits = 1 ]_vars

\* C12 witness: init_db succeeded on a store that holds a document and a
\* chunk (so that the schema existed before the call).
C12_Witness ==
    /\ ret.op = "init_db"
    /\ ret.fault = "none"
    /\ ret.commits = 1
    /\ schema = SchemaObjects
    /\ documents # {}
    /\ document_chunks # {}

\* C14: a store call that opened a connection has closed it exactly once
\* when it ends, whether it committed, rolled back or raised in the
\* rollback; a call opens no connection only when connecting failed.
C14_ConnectionReleased ==
    ret.op # "none" =>
       /\ ret.closed = ret.opened
       /\ ret.opened = IF ret.raised /\ ~ret.error THEN 0 ELSE 1

\* C14 witness: a call whose rollback raised has closed its connection.
C14_Witness ==
    /\ ret.op \in {"init_db", "insert_document", "insert_chunks"}
    /\ ret.raised
    /\ ret.error
    /\ ret.opened = 1
    /\ ret.closed = 1

\* C14 witness of the search: a failed search has closed its connection.
C14_WitnessSearch ==
    /\ ret.op = "search"
    /\ ret.error
    /\ ret.closed = 1

\* C13 as claimed: a second ingest_data run over a directory whose files
\* the first run has all processed stores no chunk: document_chunks holds,
\* for every document, the rows it held after the first run.
C13_ReingestAddsNothing ==
    (pc = "done" /\ Len(report) = 2 * Len(nodes_by_file))
    => \A i \in 1..Len(nodes_by_file) :
          report[Len(nodes_by_file) + i].written = {}

\* C15: an ingest_data run starts with init_db, before any registration
\* or chunk write; a file's embeddings are requested only after its
\* insert_document call; insert_chunks is reached only from the count check,
\* with as many embeddings as chunks; and within a run documents changes in
\* the registration step only and document_chunks in the write step only.
C15_StepOrder ==
    [][ /\ (pc = "idle" /\ pc' # "idle")
             => /\ ret'.op = "init_db"
                /\ pc' \in {"load", "aborted"}
                /\ documents' = documents
                /\ document_chunks' = document_chunks
        /\ (pc' = "load" /\ pc # "load") => pc = "idle"
        /\ (pc' = "register" /\ pc # "register")
             => pc \in {"load", "embed", "write"}
        /\ (pc # "idle" /\ (documents' # documents \/ doc_seq' # doc_seq))
             => pc = "register" /\ ret'.op = "insert_document"
        /\ (pc' = "embed" /\ pc # "embed")
             => /\ pc = "register"
                /\ ret'.op = "insert_document"
                /\ ret'.file_path = nodes_by_file[fi].file_path
                /\ doc_id' = ret'.doc_id
        /\ (cur'.nemb >= 0 /\ cur'.nemb # cur.nemb) => pc = "embed"
        /\ (pc' = "write" /\ pc # "write")
             => /\ pc = "embed"
                /\ Len(embeddings') = Len(nodes_by_file[fi].nodes)
        /\ (pc # "idle" /\ (document_chunks' # document_chunks
                              \/ chunk_seq' # chunk_seq))
             => /\ pc = "write"
                /\ ret'.op = "insert_chunks"
                /\ ret'.doc_id = doc_id
                /\ Len(embeddings) = Len(nodes_by_file[fi].nodes) ]_vars

\* C15 witness: the first file went through registration, embedding, count
\* check and write, and the second file is at its write step.
C15_Witness ==
    /\ pc = "write"
    /\ fi = 2
    /\ report[1].status = "processed"
    /\ report[1].written # {}
    /\ ret.op = "insert_document"
    /\ ret.file_path = nodes_by_file[2].file_path

\* C16: when the embedding service returns one vector per input text in
\* input order, every row the write step of ingest_data stores belongs to a
\* node of the file and carries the embedding of that node's own text.
C16_EmbeddingsAligned ==
    [][ (pc = "write" /\ cur.svc = "ok")
        => \A c \in document_chunks' \ document_chunks :
              \E i \in DOMAIN nodes_by_file[fi].nodes :
                 /\ c.chunk_id = nodes_by_file[fi].nodes[i].id_
                 /\ c.text = nodes_by_file[fi].nodes[i].text
                 /\ ~IsBlank(c.text)
                 /\ c.embedding = Emb(c.text)
                 /\ c.embedding = embeddings[i] ]_vars

\* C16 witness: under such a service a file of two chunks with different
\* embeddings has been written.
C16_Witness ==
    /\ pc \in {"register", "done"}
    /\ cur.svc = "ok"
    /\ report # <<>>
    /\ report[Len(report)].status = "processed"
    /\ Cardinality({c.embedding : c \in report[Len(report)].written}) = 2
    /\ \A c \in report[Len(report)].written : c.embedding = Emb(c.text)

\* C16 witness of the filtering: under such a service a file with a blank
\* text got one embedding for two texts and was skipped.
C16_WitnessBlank ==
    /\ cur.svc = "ok"
    /\ report # <<>>
    /\ report[Len(report)].status = "mismatch"
    /\ report[Len(report)].nemb = 1
    /\ report[Len(report)].ntexts = 2

\* C17 as claimed: a file is reported as processed only if its chunk batch
\* was committed; when insert_chunks failed and rolled back it is not.
C17_ProcessedMeansCommitted ==
    \A i \in DOMAIN report :
       report[i].status = "processed"
       => /\ ~report[i].write_error
          /\ Cardinality(report[i].written) = report[i].ntexts

=============================================================================
